---- MODULE Spec2Model ----
(***************************************************************************)
(* Home Assistant sensor entities of govee2mqtt (src/hass_mqtt/sensor.rs): *)
(* GlobalFixedDiagnostic, CapabilitySensor and DeviceStatusDiagnostic,     *)
(* their construction, publish_config and notify_state, over a shared      *)
(* device store, a clock and an MQTT transport whose publishes may fail.   *)
(***************************************************************************)
EXTENDS Integers, Sequences, FiniteSets, TLC

VARIABLES
    store,      \* StateHandle: device id -> Option<ServiceDevice>
    now,        \* Utc::now(), in whole seconds
    entities,   \* the entities built so far, keyed by what they were built from
    discovery,  \* per entity: the discovery payloads sent so far
    last        \* the most recent operation and everything it was observed to do

vars == <<store, now, entities, discovery, last>>

(***************************************************************************)
(* Bounds of the model.                                                    *)
(***************************************************************************)
\* entities the construction actions build in one behaviour
MaxEntities == 2
\* capabilities in one HTTP state snapshot
MaxCaps == 2
\* seconds the clock runs past the staleness threshold
MaxPast == 2

(***************************************************************************)
(* Option<T>: None is the empty sequence, Some(x) the one-element one.     *)
(***************************************************************************)
None == << >>
Some(x) == << x >>
IsSome(o) == o # None
Unwrap(o) == o[1]

(***************************************************************************)
(* Numbers.  An f64 reading is modelled as an exact fraction <<n, d>>,     *)
(* d > 0; readings enter in tenths.                                        *)
(***************************************************************************)
Abs(n) == IF n < 0 THEN -n ELSE n
Rat(n, d) == << n, d >>
RatAdd(a, b) == << a[1] * b[2] + b[1] * a[2], a[2] * b[2] >>
RatMul(a, b) == << a[1] * b[1], a[2] * b[2] >>

\* crate::temperature::ctof: (c * 9 / 5) + 32
ctof(c) == RatAdd(RatMul(c, Rat(9, 5)), Rat(32, 1))
\* crate::temperature::ftoc: (f - 32) * 5 / 9
ftoc(f) == RatMul(RatAdd(f, Rat(-32, 1)), Rat(5, 9))

\* TemperatureUnits::from_reading_to_celsius
from_reading_to_celsius(units, v) ==
    IF units = "Fahrenheit" THEN ftoc(v) ELSE v

\* HumidityUnits::from_reading_to_relative_percent
from_reading_to_relative_percent(units, v) ==
    IF units = "RelativePercentTimes100" THEN RatMul(v, Rat(1, 100)) ELSE v

\* format!("{:.2}", v): two decimals, round to nearest (ties to even), the
\* sign printed whenever the value is negative.
Format2(v) ==
    LET m == Abs(v[1]) * 100
        q == m \div v[2]
        r == m % v[2]
        h == IF 2 * r > v[2] \/ (2 * r = v[2] /\ q % 2 = 1) THEN q + 1 ELSE q
        frac == h % 100
    IN  (IF v[1] < 0 THEN "-" ELSE "") \o ToString(h \div 100) \o "."
            \o (IF frac < 10 THEN "0" ELSE "") \o ToString(frac)

(***************************************************************************)
(* serde_json::Value, as far as capability state documents use it.         *)
(***************************************************************************)
JNum(tenths) == [t |-> "num", n |-> tenths]
JStr(s) == [t |-> "str", s |-> s]
JBool(b) == [t |-> "bool", b |-> b]
JEmpty == [t |-> "obj", keys |-> {}]
JObj(k, v) == [t |-> "obj", keys |-> {k}, key |-> k, val |-> v]

\* Value::pointer: follow the keys of path; None as soon as one is missing
RECURSIVE pointer(_, _)
pointer(doc, path) ==
    IF path = << >> THEN Some(doc)
    ELSE IF doc.t = "obj" /\ Head(path) \in doc.keys
         THEN pointer(doc.val, Tail(path))
         ELSE None

\* Value::as_f64
as_f64(v) == IF v.t = "num" THEN Some(Rat(v.n, 10)) ELSE None

\* Value::to_string (Display): compact JSON text
RECURSIVE to_string(_)
to_string(doc) ==
    CASE doc.t = "num" ->
            (IF doc.n < 0 THEN "-" ELSE "") \o ToString(Abs(doc.n) \div 10)
                \o "." \o ToString(Abs(doc.n) % 10)
      [] doc.t = "str" -> "\"" \o doc.s \o "\""
      [] doc.t = "bool" -> IF doc.b THEN "true" ELSE "false"
      [] OTHER ->
            IF doc.keys = {} THEN "{}"
            ELSE "{\"" \o doc.key \o "\":" \o to_string(doc.val) \o "}"

(***************************************************************************)
(* Collaborators of the file: the poll interval, the topic helpers and the *)
(* fixed parts of every EntityConfig.                                      *)
(***************************************************************************)
\* commands::serve::POLL_INTERVAL, in seconds (scaled down)
POLL_INTERVAL == 2
\* the grace period added to it: chrono::Duration::seconds(30)
GraceSeconds == 30
threshold == POLL_INTERVAL + GraceSeconds
MaxNow == threshold + MaxPast

DeviceIds == {"AA:01", "BB:02"}
Instances == {"sensorTemperature", "online", "gv2mqtt-status"}
GlobalNames == {"Service Version"}

\* service::hass::topic_safe_string: characters that are not safe in a
\* topic become "_"; a safe string is left as it is
topic_safe_string(s) ==
    CASE s = "Service Version" -> "Service_Version"
      [] OTHER -> s

\* service::hass::topic_safe_id: the device id without its colons
topic_safe_id(device) ==
    CASE device.id = "AA:01" -> "AA01"
      [] device.id = "BB:02" -> "BB02"
      [] OTHER -> device.id

availability_topic == "gv2mqtt/availability"
OriginDefault == [name |-> "govee2mqtt"]
DeviceThisService == [identifiers |-> "gv2mqtt"]
DeviceForDevice(device) == [identifiers |-> "gv2mqtt-" \o topic_safe_id(device)]

(***************************************************************************)
(* The entities and their constructors.  The StateHandle each device-bound *)
(* entity keeps is a handle on the one shared store, the variable store.   *)
(***************************************************************************)
\* GlobalFixedDiagnostic::new
GlobalFixedDiagnostic_new(name, value) ==
    LET unique_id == "global-" \o topic_safe_string(name)
    IN  [kind |-> "GlobalFixedDiagnostic",
         sensor |-> [
            base |-> [availability_topic |-> availability_topic,
                      name |-> Some(name),
                      entity_category |-> Some("diagnostic"),
                      origin |-> OriginDefault,
                      device |-> DeviceThisService,
                      unique_id |-> unique_id,
                      device_class |-> None,
                      icon |-> None],
            state_topic |-> "gv2mqtt/sensor/" \o unique_id \o "/state",
            unit_of_measurement |-> None,
            json_attributes_topic |-> None],
         value |-> value]

\* CapabilitySensor::new
CapabilitySensor_new(device, instance) ==
    LET unique_id == "sensor-" \o topic_safe_id(device) \o "-"
                        \o topic_safe_string(instance)
        unit_of_measurement ==
            CASE instance = "sensorTemperature" -> Some("°C")
              [] instance = "sensorHumidity" -> Some("%")
              [] OTHER -> None
        name ==
            CASE instance = "sensorTemperature" -> "Temperature"
              [] instance = "sensorHumidity" -> "Humidity"
              [] instance = "online" -> "Connected to Govee Cloud"
              [] OTHER -> instance
    IN  [kind |-> "CapabilitySensor",
         sensor |-> [
            base |-> [availability_topic |-> availability_topic,
                      name |-> Some(name),
                      entity_category |-> Some("diagnostic"),
                      origin |-> OriginDefault,
                      device |-> DeviceForDevice(device),
                      unique_id |-> unique_id,
                      device_class |-> None,
                      icon |-> None],
            state_topic |-> "gv2mqtt/sensor/" \o unique_id \o "/state",
            unit_of_measurement |-> unit_of_measurement,
            json_attributes_topic |-> None],
         device_id |-> device.id,
         instance_name |-> instance]

\* a derivation that converts any sensor, temperature or not
into_temperature_farenheit_ungated(self) ==
    Some([self EXCEPT
            !.sensor.unit_of_measurement = Some("°F"),
            !.sensor.base.unique_id = @ \o "_F",
            !.sensor.state_topic = @ \o "_F",
            !.sensor.base.name = Some("Temperature (imperial)")])

\* CapabilitySensor::into_temperature_farenheit
into_temperature_farenheit(self) ==
    IF self.instance_name # "sensorTemperature" THEN None
    ELSE Some([self EXCEPT
            !.sensor.unit_of_measurement = Some("°F"),
            !.sensor.base.unique_id = @ \o "_F",
            !.sensor.state_topic = @ \o "_F",
            !.sensor.base.name = Some("Temperature (imperial)")])

\* DeviceStatusDiagnostic::new
DeviceStatusDiagnostic_new(device) ==
    LET unique_id == "sensor-" \o topic_safe_id(device) \o "-gv2mqtt-status"
    IN  [kind |-> "DeviceStatusDiagnostic",
         sensor |-> [
            base |-> [availability_topic |-> availability_topic,
                      name |-> Some("Status"),
                      entity_category |-> Some("diagnostic"),
                      origin |-> OriginDefault,
                      device |-> DeviceForDevice(device),
                      unique_id |-> unique_id,
                      device_class |-> None,
                      icon |-> None],
            state_topic |-> "gv2mqtt/sensor/" \o unique_id \o "/state",
            json_attributes_topic |->
                Some("gv2mqtt/sensor/" \o unique_id \o "/attributes"),
            unit_of_measurement |-> None],
         device_id |-> device.id]

\* #[derive(Serialize)] of SensorConfig: the base flattened in, an absent
\* optional field left out of the payload altogether
SensorConfig_serialize(sensor) ==
    LET base == sensor.base
        opt(key, o) == IF IsSome(o) THEN {<<key, Unwrap(o)>>} ELSE {}
    IN  {<<"availability_topic", base.availability_topic>>,
         <<"origin", base.origin>>,
         <<"device", base.device>>,
         <<"unique_id", base.unique_id>>,
         <<"state_topic", sensor.state_topic>>}
        \cup opt("name", base.name)
        \cup opt("entity_category", base.entity_category)
        \cup opt("device_class", base.device_class)
        \cup opt("icon", base.icon)
        \cup opt("unit_of_measurement", sensor.unit_of_measurement)
        \cup opt("json_attributes_topic", sensor.json_attributes_topic)

\* hass_mqtt::instance::publish_entity_config: one message, the serialized
\* config, on the discovery topic of the entity
publish_entity_config(integration, base, payload, ok) ==
    [topic |-> "homeassistant/" \o integration \o "/" \o base.unique_id \o "/config",
     payload |-> payload,
     ok |-> ok]

\* SensorConfig::publish
SensorConfig_publish(sensor, ok) ==
    publish_entity_config("sensor", sensor.base, SensorConfig_serialize(sensor), ok)

(***************************************************************************)
(* The transport.  A publish is recorded with its outcome; a failed one is *)
(* an Err the caller gets back.                                            *)
(***************************************************************************)
Publish(topic, payload, ok) == [topic |-> topic, payload |-> payload, ok |-> ok]
Outcome(calls, result) == [calls |-> calls, result |-> result]

\* a publish whose failure is dropped
SensorConfig_notify_state_swallowing(sensor, value, ok) ==
    Outcome(<< Publish(sensor.state_topic, value, ok) >>, "Ok")

\* SensorConfig::notify_state
SensorConfig_notify_state(sensor, value, ok) ==
    Outcome(<< Publish(sensor.state_topic, value, ok) >>,
            IF ok THEN "Ok" ELSE "Err")

\* GlobalFixedDiagnostic::notify_state
GlobalFixedDiagnostic_notify_state(self, ok) ==
    SensorConfig_notify_state(self.sensor, self.value, ok)

(***************************************************************************)
(* CapabilitySensor::notify_state                                          *)
(***************************************************************************)
\* the units a quirk gives, when there is a quirk and it overrides them
QuirkUnits(quirk, field, default) ==
    IF IsSome(quirk) /\ IsSome(Unwrap(quirk)[field])
    THEN Unwrap(Unwrap(quirk)[field])
    ELSE default

\* a temperature arm that never converts to Fahrenheit
TemperatureValue_metric(self, quirk, cap) ==
    LET units == QuirkUnits(quirk, "platform_temperature_sensor_units", "Celsius")
        p == pointer(cap.state, << "value" >>)
        f == IF IsSome(p) THEN as_f64(Unwrap(p)) ELSE None
    IN  IF IsSome(f)
        THEN Format2(from_reading_to_celsius(units, Unwrap(f)))
        ELSE ""

\* a temperature arm that reads a missing value as zero
TemperatureValue_zero(self, quirk, cap) ==
    LET units == QuirkUnits(quirk, "platform_temperature_sensor_units", "Celsius")
        p == pointer(cap.state, << "value" >>)
        f == IF IsSome(p) THEN as_f64(Unwrap(p)) ELSE None
        v == from_reading_to_celsius(units, IF IsSome(f) THEN Unwrap(f) ELSE Rat(0, 1))
    IN  IF self.sensor.unit_of_measurement = Some("°F")
        THEN Format2(ctof(v))
        ELSE Format2(v)

\* the "sensorTemperature" arm
TemperatureValue(self, quirk, cap) ==
    LET units == QuirkUnits(quirk, "platform_temperature_sensor_units", "Celsius")
        p == pointer(cap.state, << "value" >>)
        f == IF IsSome(p) THEN as_f64(Unwrap(p)) ELSE None
    IN  IF IsSome(f)
        THEN LET v == from_reading_to_celsius(units, Unwrap(f))
             IN  IF self.sensor.unit_of_measurement = Some("°F")
                 THEN Format2(ctof(v))
                 ELSE Format2(v)
        ELSE ""

\* the "sensorHumidity" arm
HumidityValue(self, quirk, cap) ==
    LET units == QuirkUnits(quirk, "platform_humidity_sensor_units", "RelativePercent")
        p == pointer(cap.state, << "value", "currentHumidity" >>)
        f == IF IsSome(p) THEN as_f64(Unwrap(p)) ELSE None
    IN  IF IsSome(f)
        THEN Format2(from_reading_to_relative_percent(units, Unwrap(f)))
        ELSE ""

\* the value published for the capability cap
CapabilityValue(self, quirk, cap) ==
    CASE self.instance_name = "sensorTemperature" -> TemperatureValue(self, quirk, cap)
      [] self.instance_name = "sensorHumidity" -> HumidityValue(self, quirk, cap)
      [] OTHER -> to_string(cap.state)

\* a scan that keeps the last capability with the instance name
RECURSIVE LastMatch(_, _, _)
LastMatch(caps, name, i) ==
    IF i < 1 THEN 0
    ELSE IF caps[i].instance = name THEN i
    ELSE LastMatch(caps, name, i - 1)
FindCapability_last(caps, name) == LastMatch(caps, name, Len(caps))

\* for cap in &state.capabilities { if cap.instance == self.instance_name
\* { ... return } }: the index of the capability the loop returns on, from i
\* on; 0 when it runs to its end
RECURSIVE ScanFrom(_, _, _)
ScanFrom(caps, name, i) ==
    IF i > Len(caps) THEN 0
    ELSE IF caps[i].instance = name THEN i
    ELSE ScanFrom(caps, name, i + 1)
FindCapability(caps, name) == ScanFrom(caps, name, 1)

\* a refresh that publishes an empty value when it finds no capability
CapabilitySensor_refresh_blank(self, device, ok) ==
    LET quirk == device.quirk
        caps == IF IsSome(device.http_device_state)
                THEN Unwrap(device.http_device_state).capabilities ELSE << >>
        i == FindCapability(caps, self.instance_name)
    IN  IF i > 0
        THEN SensorConfig_notify_state(self.sensor,
                                       CapabilityValue(self, quirk, caps[i]), ok)
        ELSE SensorConfig_notify_state(self.sensor, "", ok)

\* the body of notify_state once the device is in hand
CapabilitySensor_refresh(self, device, ok) ==
    LET quirk == device.quirk
    IN  IF IsSome(device.http_device_state)
        THEN LET caps == Unwrap(device.http_device_state).capabilities
                 i == FindCapability(caps, self.instance_name)
             IN  IF i > 0
                 THEN SensorConfig_notify_state(self.sensor,
                            CapabilityValue(self, quirk, caps[i]), ok)
                 ELSE Outcome(<< >>, "Ok")
        ELSE Outcome(<< >>, "Ok")

\* a refresh that skips a device the store no longer has
CapabilitySensor_notify_state_graceful(self, found, ok) ==
    IF found = None THEN Outcome(<< >>, "Ok")
    ELSE CapabilitySensor_refresh(self, Unwrap(found), ok)

\* CapabilitySensor::notify_state; found is what device_by_id returned, and
\* expect("device to exist") panics on None
CapabilitySensor_notify_state(self, found, ok) ==
    IF found = None THEN Outcome(<< >>, "Panic")
    ELSE CapabilitySensor_refresh(self, Unwrap(found), ok)

(***************************************************************************)
(* DeviceStatusDiagnostic::notify_state                                    *)
(***************************************************************************)
\* a classifier that already calls a device at the threshold missing
Summary_inclusive(device_state, t) ==
    IF IsSome(device_state)
    THEN IF t - Unwrap(device_state).updated >= threshold
         THEN "Missing" ELSE "Available"
    ELSE "Unknown"

\* let summary = match &device_state { ... }
Summary(device_state, t) ==
    IF IsSome(device_state)
    THEN IF t - Unwrap(device_state).updated > threshold
         THEN "Missing" ELSE "Available"
    ELSE "Unknown"

\* let attributes = json!({ ... })
Attributes(device) ==
    [iot |-> device.iot_state,
     lan |-> device.lan_state,
     http |-> device.http_state,
     platform_metadata |-> device.http_device_info,
     platform_state |-> device.http_device_state,
     overall |-> device.device_state]

\* DeviceStatusDiagnostic::notify_state; ok1 and ok2 are the outcomes of the
\* summary publish and of the attributes publish
DeviceStatusDiagnostic_notify_state(self, found, t, ok1, ok2) ==
    IF found = None THEN Outcome(<< >>, "Panic")
    ELSE LET device == Unwrap(found)
             summary == Summary(device.device_state, t)
             first == SensorConfig_notify_state(self.sensor, summary, ok1)
         IN  IF first.result # "Ok" THEN first
             ELSE IF IsSome(self.sensor.json_attributes_topic)
             THEN Outcome(first.calls \o
                    << Publish(Unwrap(self.sensor.json_attributes_topic),
                               Attributes(device), ok2) >>,
                    IF ok2 THEN "Ok" ELSE "Err")
             ELSE first

(***************************************************************************)
(* The device store.                                                       *)
(***************************************************************************)
\* service::device::Device, the fields this file reads
ServiceDevice(id, quirk, http_device_state, device_state) ==
    [id |-> id,
     quirk |-> quirk,
     http_device_info |-> None,
     http_device_state |-> http_device_state,
     iot_state |-> None,
     lan_state |-> None,
     http_state |-> None,
     device_state |-> device_state]

Capability(instance, state) == [instance |-> instance, state |-> state]
HttpState(caps) == Some([capabilities |-> caps])
Quirk(temperature, humidity) ==
    Some([platform_temperature_sensor_units |-> temperature,
          platform_humidity_sensor_units |-> humidity])

\* a device as the platform reports a thermometer
ReportedCaps ==
    << Capability("sensorTemperature", JObj("value", JNum(210))),
       Capability("sensorHumidity",
                  JObj("value", JObj("currentHumidity", JNum(455)))),
       Capability("online", JObj("value", JBool(TRUE))) >>
ReportedDevice(id) ==
    ServiceDevice(id, None, HttpState(ReportedCaps), Some([updated |-> 0]))

\* StateHandle::device_by_id
device_by_id(id) == store[id]

(***************************************************************************)
(* Keys: what an entity was built from.                                    *)
(***************************************************************************)
GlobalKey(name) == [kind |-> "GlobalFixedDiagnostic", name |-> name]
CapabilityKey(id, instance, imperial) ==
    [kind |-> "CapabilitySensor", device |-> id, instance |-> instance,
     imperial |-> imperial]
StatusKey(id) == [kind |-> "DeviceStatusDiagnostic", device |-> id]

Built == DOMAIN entities
HasRoom == Cardinality(Built) < MaxEntities
Add(k, e) ==
    /\ entities' = (k :> e) @@ entities
    /\ discovery' = (k :> [payloads |-> {}, refreshed |-> FALSE]) @@ discovery

(***************************************************************************)
(* Operations.                                                             *)
(***************************************************************************)
NewGlobalFixedDiagnostic(name, value) ==
    /\ HasRoom
    /\ GlobalKey(name) \notin Built
    /\ Add(GlobalKey(name), GlobalFixedDiagnostic_new(name, value))
    /\ last' = [op |-> "new", key |-> GlobalKey(name)]
    /\ UNCHANGED <<store, now>>

NewCapabilitySensor(id, instance) ==
    /\ HasRoom
    /\ IsSome(store[id])
    /\ CapabilityKey(id, instance, 0) \notin Built
    /\ Add(CapabilityKey(id, instance, 0),
           CapabilitySensor_new(Unwrap(store[id]), instance))
    /\ last' = [op |-> "new", key |-> CapabilityKey(id, instance, 0)]
    /\ UNCHANGED <<store, now>>

NewDeviceStatusDiagnostic(id) ==
    /\ HasRoom
    /\ IsSome(store[id])
    /\ StatusKey(id) \notin Built
    /\ Add(StatusKey(id), DeviceStatusDiagnostic_new(Unwrap(store[id])))
    /\ last' = [op |-> "new", key |-> StatusKey(id)]
    /\ UNCHANGED <<store, now>>

\* into_temperature_farenheit on a clone of the sensor k; the entity it
\* yields, if any, joins the bridge
IntoTemperatureFarenheit(k) ==
    /\ HasRoom
    /\ k \in Built
    /\ k.kind = "CapabilitySensor"
    /\ LET out == into_temperature_farenheit(entities[k])
           derived == [k EXCEPT !.imperial = @ + 1]
       IN  /\ derived \notin Built
           /\ last' = [op |-> "into_temperature_farenheit", key |-> k,
                       self |-> entities[k], out |-> out]
           /\ IF IsSome(out)
              THEN Add(derived, Unwrap(out))
              ELSE UNCHANGED <<entities, discovery>>
    /\ UNCHANGED <<store, now>>

\* publish_config, the same for the three variants: self.sensor.publish
PublishConfig(k, ok) ==
    /\ k \in Built
    /\ LET message == SensorConfig_publish(entities[k].sensor, ok)
       IN  /\ discovery' = [discovery EXCEPT
                                ![k].payloads = @ \cup {message.payload}]
           /\ last' = [op |-> "publish_config", key |-> k,
                       message |-> message,
                       resend |-> discovery[k].payloads # {},
                       refreshed |-> discovery[k].refreshed,
                       result |-> IF ok THEN "Ok" ELSE "Err"]
    /\ UNCHANGED <<store, now, entities>>

\* what notify_state of the entity self does, given the device the store
\* returns and the outcomes of its publishes
NotifyOutcome(self, ok1, ok2) ==
    CASE self.kind = "GlobalFixedDiagnostic" ->
            GlobalFixedDiagnostic_notify_state(self, ok1)
      [] self.kind = "CapabilitySensor" ->
            CapabilitySensor_notify_state(self, device_by_id(self.device_id), ok1)
      [] OTHER ->
            DeviceStatusDiagnostic_notify_state(
                self, device_by_id(self.device_id), now, ok1, ok2)

\* a notify_state that leaves the entity renamed after its topic
NotifyState_renaming(k, ok1, ok2) ==
    /\ k \in Built
    /\ LET self == entities[k]
           outcome == NotifyOutcome(self, ok1, ok2)
       IN  last' = [op |-> "notify_state", key |-> k, self |-> self,
                    found |-> IF self.kind = "GlobalFixedDiagnostic" THEN None
                              ELSE device_by_id(self.device_id),
                    now |-> now,
                    calls |-> outcome.calls, result |-> outcome.result]
    /\ entities' = [entities EXCEPT
                        ![k].sensor.base.name = Some(entities[k].sensor.state_topic)]
    /\ discovery' = [discovery EXCEPT
                        ![k].refreshed = discovery[k].payloads # {}]
    /\ UNCHANGED <<store, now>>

\* notify_state of the entity k
NotifyState(k, ok1, ok2) ==
    /\ k \in Built
    /\ LET self == entities[k]
           outcome == NotifyOutcome(self, ok1, ok2)
       IN  last' = [op |-> "notify_state", key |-> k, self |-> self,
                    found |-> IF self.kind = "GlobalFixedDiagnostic" THEN None
                              ELSE device_by_id(self.device_id),
                    now |-> now,
                    calls |-> outcome.calls, result |-> outcome.result]
    /\ discovery' = [discovery EXCEPT
                        ![k].refreshed = discovery[k].payloads # {}]
    /\ UNCHANGED <<store, now, entities>>

\* the ingestion pipelines drop a device from the store
RemoveDevice(id) ==
    /\ IsSome(store[id])
    /\ store' = [store EXCEPT ![id] = None]
    /\ UNCHANGED <<now, entities, discovery, last>>

\* the ingestion pipelines refresh the merged state of a device
IngestState(id) ==
    /\ IsSome(store[id])
    /\ store' = [store EXCEPT ![id] =
                    Some([Unwrap(@) EXCEPT !.device_state = Some([updated |-> now])])]
    /\ UNCHANGED <<now, entities, discovery, last>>

\* a second passes
Tick ==
    /\ now < MaxNow
    /\ now' = now + 1
    /\ UNCHANGED <<store, entities, discovery, last>>

(***************************************************************************)
(* The bridge: entities are built, announced and refreshed while devices   *)
(* may leave the store.                                                    *)
(***************************************************************************)
NoEntities == [k \in {} |-> {}]

Init ==
    /\ store = [id \in DeviceIds |-> Some(ReportedDevice(id))]
    /\ now = 0
    /\ entities = NoEntities
    /\ discovery = NoEntities
    /\ last = [op |-> "none"]

Next ==
    \/ \E name \in GlobalNames : NewGlobalFixedDiagnostic(name, "1.0")
    \/ \E id \in DeviceIds, instance \in Instances :
            NewCapabilitySensor(id, instance)
    \/ \E id \in DeviceIds : NewDeviceStatusDiagnostic(id)
    \/ \E k \in Built : IntoTemperatureFarenheit(k)
    \/ \E k \in Built, ok \in BOOLEAN : PublishConfig(k, ok)
    \/ \E k \in Built, ok1 \in BOOLEAN, ok2 \in BOOLEAN : NotifyState(k, ok1, ok2)
    \/ \E id \in DeviceIds : RemoveDevice(id)

Spec == Init /\ [][Next]_vars

(***************************************************************************)
(* State resolution: one device whose quirk and HTTP snapshot are drawn    *)
(* from bounded sets, with a sensor for each kind of capability and the    *)
(* imperial variant of the temperature sensor.                             *)
(***************************************************************************)
SensorDevice == "AA:01"

Documents ==
    { JObj("value", JNum(210)),
      JObj("value", JNum(986)),
      JObj("value", JStr("n/a")),
      JEmpty,
      JObj("value", JObj("currentHumidity", JNum(455))),
      JObj("value", JObj("currentHumidity", JStr("n/a"))),
      JObj("value", JBool(TRUE)) }

SnapshotInstances == {"sensorTemperature", "sensorHumidity", "online"}

Capabilities ==
    { Capability(i, d) : i \in SnapshotInstances, d \in Documents }

CapabilityLists ==
    UNION { [1..n -> Capabilities] : n \in 0..MaxCaps }

Snapshots == {None} \cup { HttpState(caps) : caps \in CapabilityLists }

Quirks ==
    { None,
      Quirk(None, None),
      Quirk(Some("Celsius"), Some("RelativePercent")),
      Quirk(Some("Fahrenheit"), Some("RelativePercentTimes100")) }

SensorEntities ==
    LET device == ReportedDevice(SensorDevice)
        temperature == CapabilitySensor_new(device, "sensorTemperature")
    IN  (CapabilityKey(SensorDevice, "sensorTemperature", 0) :> temperature)
        @@ (CapabilityKey(SensorDevice, "sensorTemperature", 1) :>
                Unwrap(into_temperature_farenheit(temperature)))
        @@ (CapabilityKey(SensorDevice, "sensorHumidity", 0) :>
                CapabilitySensor_new(device, "sensorHumidity"))
        @@ (CapabilityKey(SensorDevice, "online", 0) :>
                CapabilitySensor_new(device, "online"))

InitSensor ==
    /\ \E quirk \in Quirks, snapshot \in Snapshots :
          store = [id \in DeviceIds |->
                      IF id = SensorDevice
                      THEN Some(ServiceDevice(id, quirk, snapshot,
                                              Some([updated |-> 0])))
                      ELSE None]
    /\ now = 0
    /\ entities = SensorEntities
    /\ discovery = [k \in DOMAIN SensorEntities |->
                        [payloads |-> {}, refreshed |-> FALSE]]
    /\ last = [op |-> "none"]

NextSensor ==
    \E k \in Built, ok \in BOOLEAN : NotifyState(k, ok, ok)

SpecSensor == InitSensor /\ [][NextSensor]_vars

(***************************************************************************)
(* Availability: one device and its status diagnostic, while the clock     *)
(* runs and the merged state is refreshed now and then.                    *)
(***************************************************************************)
StatusEntities ==
    StatusKey(SensorDevice) :>
        DeviceStatusDiagnostic_new(ReportedDevice(SensorDevice))

InitStatus ==
    /\ store = [id \in DeviceIds |->
                  IF id = SensorDevice
                  THEN Some(ServiceDevice(id, None, HttpState(ReportedCaps), None))
                  ELSE None]
    /\ now = 0
    /\ entities = StatusEntities
    /\ discovery = [k \in DOMAIN StatusEntities |->
                        [payloads |-> {}, refreshed |-> FALSE]]
    /\ last = [op |-> "none"]

NextStatus ==
    \/ Tick
    \/ \E id \in DeviceIds : IngestState(id)
    \/ \E k \in Built, ok1 \in BOOLEAN, ok2 \in BOOLEAN : NotifyState(k, ok1, ok2)

SpecStatus == InitStatus /\ [][NextStatus]_vars

(***************************************************************************)
(* Properties.                                                             *)
(***************************************************************************)
Notified == last.op = "notify_state"
NotifiedKind(kind) == Notified /\ last.self.kind = kind

\* the snapshot the last notify_state read, and what it holds for the entity
SeenCaps == Unwrap(Unwrap(last.found).http_device_state).capabilities
Matching == { i \in 1..Len(SeenCaps) : SeenCaps[i].instance = last.self.instance_name }
FirstMatching == CHOOSE i \in Matching : \A j \in Matching : i <= j
LastMatching == CHOOSE i \in Matching : \A j \in Matching : j <= i
SawCapability ==
    /\ NotifiedKind("CapabilitySensor")
    /\ IsSome(last.found)
    /\ IsSome(Unwrap(last.found).http_device_state)
    /\ Matching # {}

\* the document holds a number where the arm of the instance reads it
NumericSource(instance, doc) ==
    IF instance = "sensorTemperature"
    THEN doc.keys = {"value"} /\ doc.val.t = "num"
    ELSE /\ doc.keys = {"value"}
         /\ doc.val.t = "obj"
         /\ doc.val.keys = {"currentHumidity"}
         /\ doc.val.val.t = "num"

\* C1: the status diagnostic publishes to its state_topic "Unknown" when the
\* device has no merged state, "Missing" when now - updated exceeds the poll
\* interval plus 30 seconds, and "Available" otherwise; exactly at the
\* threshold it is "Available", one second later "Missing".
C1_StatusClassification ==
    (NotifiedKind("DeviceStatusDiagnostic") /\ IsSome(last.found)) =>
        LET merged == Unwrap(last.found).device_state
            age == last.now - Unwrap(merged).updated
            limit == POLL_INTERVAL + 30
            summary == last.calls[1].payload
        IN  /\ Len(last.calls) >= 1
            /\ last.calls[1].topic = last.self.sensor.state_topic
            /\ merged = None => summary = "Unknown"
            /\ (merged # None /\ age > limit) => summary = "Missing"
            /\ (merged # None /\ age <= limit) => summary = "Available"
            /\ (merged # None /\ age = limit) => summary = "Available"
            /\ (merged # None /\ age = limit + 1) => summary = "Missing"

C1_AtThreshold ==
    /\ NotifiedKind("DeviceStatusDiagnostic")
    /\ IsSome(last.found)
    /\ IsSome(Unwrap(last.found).device_state)
    /\ last.now - Unwrap(Unwrap(last.found).device_state).updated
            = POLL_INTERVAL + 30
    /\ last.calls[1].payload = "Available"

\* C2, as claimed: with the device absent from the store, notify_state of a
\* CapabilitySensor and of a DeviceStatusDiagnostic calls the transport not at
\* all and returns success.
C2_GracefulNoOp ==
    (Notified /\ last.self.kind # "GlobalFixedDiagnostic" /\ last.found = None) =>
        /\ last.calls = << >>
        /\ last.result = "Ok"

\* C2, amended: with the device absent from the store, notify_state of a
\* CapabilitySensor and of a DeviceStatusDiagnostic calls the transport not at
\* all, and it does not return: expect("device to exist") panics.
C2_PanicsBeforePublishing ==
    (Notified /\ last.self.kind # "GlobalFixedDiagnostic" /\ last.found = None) =>
        /\ last.calls = << >>
        /\ last.result = "Panic"

C2_DeviceGone ==
    /\ NotifiedKind("CapabilitySensor")
    /\ last.found = None
    /\ last.result = "Panic"

\* C3: a CapabilitySensor whose device is in the store without an HTTP state
\* snapshot, or with a snapshot that has no capability of the entity's
\* instance name, publishes nothing and returns success.
C3_MissingCapabilityIsNoOp ==
    (/\ NotifiedKind("CapabilitySensor")
     /\ IsSome(last.found)
     /\ \/ Unwrap(last.found).http_device_state = None
        \/ Matching = {})
    => /\ last.calls = << >>
       /\ last.result = "Ok"

C3_SnapshotWithoutInstance ==
    /\ NotifiedKind("CapabilitySensor")
    /\ IsSome(last.found)
    /\ IsSome(Unwrap(last.found).http_device_state)
    /\ Len(SeenCaps) >= 1
    /\ Matching = {}
    /\ last.calls = << >>
    /\ last.result = "Ok"

\* C4: for every variant, a notify_state in which a publish failed returns
\* the error, and one that returns success had every publish it attempted,
\* summary and attributes alike, succeed.
C4_PublishFailuresSurface ==
    Notified =>
        /\ (\E i \in 1..Len(last.calls) : ~last.calls[i].ok) => last.result = "Err"
        /\ last.result = "Ok" => \A i \in 1..Len(last.calls) : last.calls[i].ok

C4_AttributesPublishFailed ==
    /\ NotifiedKind("DeviceStatusDiagnostic")
    /\ Len(last.calls) = 2
    /\ last.calls[1].ok
    /\ ~last.calls[2].ok
    /\ last.result = "Err"

\* C5: into_temperature_farenheit yields nothing for a sensor whose instance
\* is not "sensorTemperature"; for a "sensorTemperature" sensor it yields a
\* sensor of the same device and instance with unit °F, the unique_id and the
\* state_topic of the original with "_F" appended, named
\* "Temperature (imperial)".
C5_ImperialDerivationGated ==
    last.op = "into_temperature_farenheit" =>
        IF last.self.instance_name # "sensorTemperature"
        THEN last.out = None
        ELSE /\ IsSome(last.out)
             /\ LET derived == Unwrap(last.out)
                IN  /\ derived.kind = "CapabilitySensor"
                    /\ derived.device_id = last.self.device_id
                    /\ derived.instance_name = last.self.instance_name
                    /\ derived.sensor.unit_of_measurement = Some("°F")
                    /\ derived.sensor.base.unique_id
                            = last.self.sensor.base.unique_id \o "_F"
                    /\ derived.sensor.state_topic
                            = last.self.sensor.state_topic \o "_F"
                    /\ derived.sensor.base.name = Some("Temperature (imperial)")

C5_ImperialDerived ==
    /\ last.op = "into_temperature_farenheit"
    /\ last.self.instance_name = "sensorTemperature"
    /\ IsSome(last.out)
    /\ Unwrap(last.out).sensor.base.unique_id = "sensor-AA01-sensorTemperature_F"
    /\ Unwrap(last.out).sensor.state_topic
            = "gv2mqtt/sensor/sensor-AA01-sensorTemperature/state_F"

\* C6: a temperature or humidity sensor whose capability is in the snapshot
\* but whose source field (value, value.currentHumidity) is missing or not a
\* number publishes exactly once, the empty string, to its state_topic, and
\* returns the result of that publish.
C6_MalformedFieldPublishesEmpty ==
    (/\ SawCapability
     /\ last.self.instance_name \in {"sensorTemperature", "sensorHumidity"}
     /\ ~NumericSource(last.self.instance_name, SeenCaps[FirstMatching].state))
    => /\ Len(last.calls) = 1
       /\ last.calls[1].topic = last.self.sensor.state_topic
       /\ last.calls[1].payload = ""
       /\ last.result = IF last.calls[1].ok THEN "Ok" ELSE "Err"

C6_NonNumericTemperature ==
    /\ SawCapability
    /\ last.self.instance_name = "sensorTemperature"
    /\ SeenCaps[FirstMatching].state = JObj("value", JStr("n/a"))
    /\ Len(last.calls) = 1
    /\ last.calls[1].payload = ""
    /\ last.result = "Ok"

\* C7: every discovery payload sent for an entity is the same payload,
\* however many publish_config and notify_state calls come in between.
C7_PublishConfigIdempotent ==
    \A k \in Built : Cardinality(discovery[k].payloads) <= 1

C7_ResentAfterRefresh ==
    /\ last.op = "publish_config"
    /\ last.resend
    /\ last.refreshed
    /\ discovery[last.key].payloads = {last.message.payload}

\* the topics an entity publishes its state to
StateTopics(e) ==
    {e.sensor.state_topic}
        \cup (IF IsSome(e.sensor.json_attributes_topic)
              THEN {Unwrap(e.sensor.json_attributes_topic)} ELSE {})

C9_TemperatureConversion ==
    (/\ SawCapability
     /\ last.self.instance_name = "sensorTemperature"
     /\ NumericSource("sensorTemperature", SeenCaps[FirstMatching].state))
    => LET quirk == Unwrap(last.found).quirk
           tenths == SeenCaps[FirstMatching].state.val.n
           reading == Rat(tenths, 10)
           reported ==
              IF quirk # None
                 /\ Unwrap(quirk).platform_temperature_sensor_units # None
              THEN Unwrap(Unwrap(quirk).platform_temperature_sensor_units)
              ELSE "Celsius"
           celsius == IF reported = "Fahrenheit" THEN ftoc(reading) ELSE reading
           imperial == last.self.sensor.unit_of_measurement = Some("°F")
           shown == IF imperial THEN ctof(celsius) ELSE celsius
           topic == "gv2mqtt/sensor/sensor-AA01-sensorTemperature/state"
       IN  /\ Len(last.calls) = 1
           /\ last.calls[1].topic = last.self.sensor.state_topic
           /\ last.calls[1].topic = IF imperial THEN topic \o "_F" ELSE topic
           /\ last.calls[1].payload = Format2(shown)
           /\ (quirk = None /\ tenths = 210) =>
                last.calls[1].payload = IF imperial THEN "69.80" ELSE "21.00"
           /\ (reported = "Fahrenheit" /\ tenths = 986) =>
                last.calls[1].payload = IF imperial THEN "98.60" ELSE "37.00"

C9_ImperialWithoutQuirk ==
    /\ SawCapability
    /\ last.self.instance_name = "sensorTemperature"
    /\ last.self.sensor.unit_of_measurement = Some("°F")
    /\ Unwrap(last.found).quirk = None
    /\ SeenCaps[FirstMatching].state = JObj("value", JNum(210))
    /\ last.calls[1].topic = "gv2mqtt/sensor/sensor-AA01-sensorTemperature/state_F"
    /\ last.calls[1].payload = "69.80"

\* C10: one notify_state of a CapabilitySensor publishes at most once, and
\* when several capabilities of the snapshot carry the entity's instance
\* name, what it publishes is the value of the first of them.
C10_FirstMatchWins ==
    NotifiedKind("CapabilitySensor") =>
        /\ Len(last.calls) <= 1
        /\ SawCapability =>
              /\ Len(last.calls) = 1
              /\ last.calls[1].payload =
                    CapabilityValue(last.self, Unwrap(last.found).quirk,
                                    SeenCaps[FirstMatching])

C10_LaterMatchIgnored ==
    /\ SawCapability
    /\ Cardinality(Matching) >= 2
    /\ CapabilityValue(last.self, Unwrap(last.found).quirk, SeenCaps[FirstMatching])
         # CapabilityValue(last.self, Unwrap(last.found).quirk, SeenCaps[LastMatching])
    /\ last.calls[1].payload =
         CapabilityValue(last.self, Unwrap(last.found).quirk, SeenCaps[FirstMatching])

====
